---- MODULE Spec2Model ----
(***************************************************************************)
(* A model of src/app.py: the upload handler of the data-cleaning app.     *)
(* One run of the script body (lines 29-178) on one uploaded CSV file is   *)
(* a sequence of steps: read the file, normalise the headers, audit, fill  *)
(* numeric columns, fill categorical columns, detect and sort by the time  *)
(* column, audit again, pick the business columns, and compute the three   *)
(* tabs.                                                                   *)
(*                                                                         *)
(* Text (column names and text cells) is a sequence of one-character       *)
(* strings, so that substring tests, lower-casing, ordering and date       *)
(* parsing are computed and not assumed.  Numbers are exact rationals.     *)
(***************************************************************************)
EXTENDS Integers, Sequences, FiniteSets, TLC

VARIABLES
    pc,             \* position in the script body
    uploaded,       \* the table as read by pd.read_csv (line 31), kept for reference
    df,             \* the data frame: [index, cols]
    initial_nulls,  \* get_health_check(df) before cleaning (line 43)
    log,            \* the cleaning operations written at lines 65 and 73
    num_cols,       \* line 53
    cat_cols,       \* line 68
    date_cols,      \* line 76
    final_nulls,    \* get_health_check(df) after cleaning (line 84)
    profit_col,     \* line 98
    sales_col,      \* line 99
    category_col,   \* line 100
    monthly_sales,  \* tab1 outcome (lines 104-117)
    cat_profit,     \* tab2 outcome (lines 121-134)
    corr            \* tab3 outcome (lines 138-143)

vars == <<pc, uploaded, df, initial_nulls, log, num_cols, cat_cols, date_cols,
          final_nulls, profit_col, sales_col, category_col, monthly_sales,
          cat_profit, corr>>

----------------------------------------------------------------------------
(* Bounds of the model. *)

\* the largest number of rows of an uploaded table
MaxRows == 4

\* the largest number of cells (rows times columns) of an uploaded table
MaxCells == 6

----------------------------------------------------------------------------
(* Text. *)

\* the characters of the model in code-point order (Python compares str by code point)
Alphabet ==
    <<" ", "-", ".", "/",
      "0", "1", "2", "3", "4", "5", "6", "7", "8", "9",
      "A", "B", "C", "D", "E", "F", "G", "H", "I", "J", "K", "L", "M",
      "N", "O", "P", "Q", "R", "S", "T", "U", "V", "W", "X", "Y", "Z",
      "_",
      "a", "b", "c", "d", "e", "f", "g", "h", "i", "j", "k", "l", "m",
      "n", "o", "p", "q", "r", "s", "t", "u", "v", "w", "x", "y", "z">>

Ord(c) == CHOOSE i \in 1..Len(Alphabet) : Alphabet[i] = c

IsUpper(c) == Ord(c) >= Ord("A") /\ Ord(c) <= Ord("Z")

IsDigit(c) == Ord(c) >= Ord("0") /\ Ord(c) <= Ord("9")

Digit(c) == Ord(c) - Ord("0")

\* str.lower on one character
LowerChar(c) == IF IsUpper(c) THEN Alphabet[Ord("a") + (Ord(c) - Ord("A"))] ELSE c

\* str.strip: leading and trailing blanks removed
RECURSIVE LStrip(_)
LStrip(s) == IF s # << >> /\ Head(s) = " " THEN LStrip(Tail(s)) ELSE s

RECURSIVE RStrip(_)
RStrip(s) ==
    IF s # << >> /\ s[Len(s)] = " " THEN RStrip(SubSeq(s, 1, Len(s) - 1)) ELSE s

Strip(s) == RStrip(LStrip(s))

Lower(s) == [i \in 1..Len(s) |-> LowerChar(s[i])]

\* str.replace(' ', '_')
ReplaceSpace(s) == [i \in 1..Len(s) |-> IF s[i] = " " THEN "_" ELSE s[i]]

\* df.columns.str.strip().str.lower().str.replace(' ', '_') on one header
NormalizeHeader(s) == ReplaceSpace(Lower(Strip(s)))

\* Python's  sub in s
Contains(sub, s) ==
    \E i \in 0..(Len(s) - Len(sub)) : SubSeq(s, i + 1, i + Len(sub)) = sub

\* Python's  a < b  on str: lexicographic by code point
RECURSIVE StrLess(_, _)
StrLess(a, b) ==
    IF b = << >> THEN FALSE
    ELSE IF a = << >> THEN TRUE
    ELSE IF Head(a) # Head(b) THEN Ord(Head(a)) < Ord(Head(b))
    ELSE StrLess(Tail(a), Tail(b))

----------------------------------------------------------------------------
(* Numbers: exact rationals n/d with d > 0, in lowest terms. *)

Abs(x) == IF x < 0 THEN -x ELSE x

RECURSIVE Gcd(_, _)
Gcd(a, b) == IF b = 0 THEN a ELSE Gcd(b, a % b)

----------------------------------------------------------------------------
(* Cells.  A missing cell (NaN, None, NaT: whatever isnull() reports) is   *)
(* NaN; every cell has the same four fields.                               *)

NaN == [kind |-> "nan", n |-> 0, d |-> 0, s |-> << >>]

\* the number n/d; a division by zero (the mean of no values) is NaN
Num(n, d) ==
    IF d = 0 THEN NaN
    ELSE LET g == Gcd(Abs(n), Abs(d))
             sg == IF d < 0 THEN -1 ELSE 1
         IN [kind |-> "num", n |-> (sg * n) \div g, d |-> (sg * d) \div g, s |-> << >>]

Str(s) == [kind |-> "str", n |-> 0, d |-> 0, s |-> s]

\* a timestamp: calendar day n = yyyymmdd, d nanoseconds into the day
Ts(day, ns) == [kind |-> "ts", n |-> day, d |-> ns, s |-> << >>]

IsNull(c) == c.kind = "nan"

\* the sum of two numbers
Add(a, b) == Num(a.n * b.d + b.n * a.d, a.d * b.d)

\* a < b on numbers
NumLess(a, b) == a.n * b.d < b.n * a.d

\* a < b on timestamps
TsLess(a, b) == a.n < b.n \/ (a.n = b.n /\ a.d < b.d)

\* the order sort_values uses on the present cells of one column
CellLess(a, b) ==
    IF a.kind = "num" /\ b.kind = "num" THEN NumLess(a, b)
    ELSE IF a.kind = "ts" /\ b.kind = "ts" THEN TsLess(a, b)
    ELSE IF a.kind = "str" /\ b.kind = "str" THEN StrLess(a.s, b.s)
    ELSE FALSE

----------------------------------------------------------------------------
(* Column statistics, as pandas computes them (missing cells skipped). *)

\* Series.isnull().sum()
NullCount(cells) == Cardinality({i \in 1..Len(cells) : IsNull(cells[i])})

\* the present (non-missing) cells, in row order
Present(cells) == SelectSeq(cells, LAMBDA c : ~IsNull(c))

\* Series.sum(): missing cells are skipped, the empty sum is 0
RECURSIVE Sum(_)
Sum(cells) ==
    IF cells = << >> THEN Num(0, 1)
    ELSE IF IsNull(Head(cells)) THEN Sum(Tail(cells))
    ELSE Add(Head(cells), Sum(Tail(cells)))

\* Series.mean(): sum / count over the present cells; 0/0 = NaN when none is present
Mean(cells) ==
    LET p == Present(cells)
        t == Sum(p)
    IN Num(t.n, t.d * Len(p))

RECURSIVE Insert(_, _)
Insert(x, sorted) ==
    IF sorted = << >> THEN <<x>>
    ELSE IF NumLess(x, Head(sorted)) THEN <<x>> \o sorted
    ELSE <<Head(sorted)>> \o Insert(x, Tail(sorted))

RECURSIVE SortNums(_)
SortNums(cells) ==
    IF cells = << >> THEN << >> ELSE Insert(Head(cells), SortNums(Tail(cells)))

\* Series.median(): the middle present value, or the mean of the two middle ones
Median(cells) ==
    LET p == SortNums(Present(cells))
        k == Len(p)
    IN IF k = 0 THEN NaN
       ELSE IF k % 2 = 1 THEN p[(k + 1) \div 2]
       ELSE LET t == Add(p[k \div 2], p[k \div 2 + 1]) IN Num(t.n, t.d * 2)

RECURSIVE Lcm(_)
Lcm(cells) ==
    IF cells = << >> THEN 1
    ELSE LET r == Lcm(Tail(cells)) IN (Head(cells).d * r) \div Gcd(Head(cells).d, r)

RECURSIVE SumPow(_, _, _, _)
SumPow(xs, k, total, e) ==
    IF xs = << >> THEN 0
    ELSE LET dev == k * Head(xs) - total
         IN (IF e = 2 THEN dev * dev ELSE dev * dev * dev) + SumPow(Tail(xs), k, total, e)

RECURSIVE SumInts(_)
SumInts(xs) == IF xs = << >> THEN 0 ELSE Head(xs) + SumInts(Tail(xs))

\* the threshold of line 57
SkewThreshold == 1

(* Series.skew() > SkewThreshold.  pandas' skew is the bias-corrected sample
   skewness  G1 = k*sqrt(k-1)/(k-2) * m3 / m2^1.5  with m2, m3 the sums of the
   squared and cubed deviations from the mean over the k present values; it
   is NaN for k < 3 (NaN > 1 is False) and 0 when m2 = 0.  Skewness does not
   change when the values are scaled, so the present values are scaled to
   integers xs and the deviations by k:  M2 = sum (k*x - total)^2,
   M3 = sum (k*x - total)^3,  G1 = k*sqrt(k-1)/(k-2) * M3 / M2^1.5,  and
   G1 > t  iff  M3 > 0  and  k^2 (k-1) M3^2 > t^2 (k-2)^2 M2^3   (t >= 0). *)
SkewAbove(cells, t) ==
    LET p  == Present(cells)
        k  == Len(p)
        m  == Lcm(p)
        xs == [i \in 1..k |-> p[i].n * (m \div p[i].d)]
        total == SumInts(xs)
        M2 == SumPow(xs, k, total, 2)
        M3 == SumPow(xs, k, total, 3)
    IN /\ k >= 3
       /\ M2 > 0
       /\ M3 > 0
       /\ k * k * (k - 1) * M3 * M3 > t * t * (k - 2) * (k - 2) * M2 * M2 * M2

\* how often v occurs in the column
CountOf(cells, v) == Cardinality({i \in 1..Len(cells) : cells[i] = v})

\* the values Series.mode() returns: the most frequent present values
Modes(cells) ==
    LET p == Present(cells)
        vals == {p[i] : i \in 1..Len(p)}
    IN {v \in vals : \A w \in vals : CountOf(p, w) <= CountOf(p, v)}

\* a variant of ModeFirst: of several most frequent values the one met first
ModeFirst_FirstMet(cells) ==
    LET ms == Modes(cells)
        at(v) == CHOOSE r \in 1..Len(cells) : cells[r] = v /\ \A q \in 1..(r - 1) : cells[q] # v
    IN CHOOSE v \in ms : \A w \in ms : at(v) <= at(w)

\* Series.mode()[0]: mode() returns the most frequent values sorted ascending
ModeFirst(cells) ==
    LET ms == Modes(cells)
    IN CHOOSE v \in ms : \A w \in ms : ~StrLess(w.s, v.s)

\* round(fill_val, 2): to the nearest hundredth, a tie to the even one
Round2(c) ==
    IF IsNull(c) THEN NaN
    ELSE LET t == c.n * 100
             q == t \div c.d
             r == t % c.d
             up == 2 * r > c.d \/ (2 * r = c.d /\ q % 2 = 1)
         IN Num(IF up THEN q + 1 ELSE q, 100)

\* Series.fillna(v): every missing cell replaced; fillna(NaN) changes nothing
FillNa(cells, v) == [i \in 1..Len(cells) |-> IF IsNull(cells[i]) THEN v ELSE cells[i]]

----------------------------------------------------------------------------
(* Dates. *)

IsLeap(y) == (y % 4 = 0 /\ y % 100 # 0) \/ y % 400 = 0

DaysIn(y, m) ==
    IF m = 2 THEN (IF IsLeap(y) THEN 29 ELSE 28)
    ELSE IF m \in {4, 6, 9, 11} THEN 30 ELSE 31

(* pd.to_datetime(..., errors='coerce') on one text cell, for the texts of
   the model: an ISO date yyyy-mm-dd of a day that exists is parsed, any
   other text is coerced to NaT. *)
ParseDate(s) ==
    IF /\ Len(s) = 10
       /\ s[5] = "-" /\ s[8] = "-"
       /\ \A i \in {1, 2, 3, 4, 6, 7, 9, 10} : IsDigit(s[i])
    THEN LET y  == 1000 * Digit(s[1]) + 100 * Digit(s[2]) + 10 * Digit(s[3]) + Digit(s[4])
             m  == 10 * Digit(s[6]) + Digit(s[7])
             dd == 10 * Digit(s[9]) + Digit(s[10])
         IN IF y >= 1 /\ m \in 1..12 /\ dd >= 1 /\ dd <= DaysIn(y, m)
            THEN Ts(10000 * y + 100 * m + dd, 0)
            ELSE NaN
    ELSE NaN

\* the first day of the epoch, 1970-01-01
EpochDay == 19700101

(* pd.to_datetime(..., errors='coerce') on one cell: a missing cell stays
   missing, a text is parsed, a number is a count of nanoseconds since the
   epoch (the numbers of the model are far below one day). *)
ToDatetime(c) ==
    IF c.kind = "str" THEN ParseDate(c.s)
    ELSE IF c.kind = "num" THEN Ts(EpochDay, c.n \div c.d)
    ELSE c

\* the calendar month yyyymm of a timestamp
MonthOf(c) == c.n \div 100

\* the month after month yyyymm
NextMonth(m) == IF m % 100 = 12 THEN m + 89 ELSE m + 1

----------------------------------------------------------------------------
(* Tables.  A data frame is [index, cols]: the row labels in row order and *)
(* the columns in column order, a column being [name, dtype, cells].       *)

Range(f) == {f[i] : i \in DOMAIN f}

NRows(t) == Len(t.index)

Names(cols) == [i \in 1..Len(cols) |-> cols[i].name]

\* df[name], for a name that is a column of the table
Column(t, name) == t.cols[CHOOSE i \in 1..Len(t.cols) : t.cols[i].name = name]

\* the rows of a column taken in the order p
Take(cells, p) == [i \in 1..Len(p) |-> cells[p[i]]]

\* get_health_check (lines 21-24): the columns with missing cells and their counts
get_health_check(t) ==
    LET counts == [i \in 1..Len(t.cols) |->
                     [col |-> t.cols[i].name, nulls |-> NullCount(t.cols[i].cells)]]
    IN SelectSeq(counts, LAMBDA e : e.nulls > 0)

\* df.select_dtypes(include=...).columns
SelectDtypes(t, dtype) == Names(SelectSeq(t.cols, LAMBDA c : c.dtype = dtype))

\* Python's None; a column name that is None or empty is falsy
None == << >>

\* next(iter(names), None): the first name, None when there is none
First(names) == IF names = << >> THEN None ELSE Head(names)

\* a variant of SortOutcomes: the rows with a missing key are dropped before the sort
SortOutcomes_DropMissing(keys) ==
    LET live == {i \in 1..Len(keys) : ~IsNull(keys[i])}
    IN {p \in [1..Cardinality(live) -> live] :
          /\ \A i, j \in 1..Cardinality(live) : i # j => p[i] # p[j]
          /\ \A i, j \in 1..Cardinality(live) : i < j => ~CellLess(keys[p[j]], keys[p[i]])}

(* The row orders Series/DataFrame.sort_values may produce for the key
   cells: ascending over the present keys, the rows with a missing key last
   and in their original order (na_position='last').  The default sort is
   not stable, so rows with equal keys may come in any order. *)
SortOutcomes(keys) ==
    LET k == Len(keys)
    IN {p \in [1..k -> 1..k] :
          /\ \A i, j \in 1..k : i # j => p[i] # p[j]
          /\ \A i, j \in 1..k : i < j =>
                /\ ~(IsNull(keys[p[i]]) /\ ~IsNull(keys[p[j]]))
                /\ ~CellLess(keys[p[j]], keys[p[i]])
                /\ (IsNull(keys[p[i]]) /\ IsNull(keys[p[j]])) => p[i] < p[j]}

----------------------------------------------------------------------------
(* The cleaning engine (lines 52-80). *)

\* a variant of UseMedian: median for any positive skew
UseMedian_AnyPositiveSkew(cells) == SkewAbove(cells, 0)

\* line 57: median when the skew is above the threshold, mean otherwise
UseMedian(cells) == SkewAbove(cells, SkewThreshold)

\* lines 57-62: the fill value and the method written to the log
NumericFill(cells) ==
    IF UseMedian(cells)
    THEN [method |-> "Median (due to skew)", fill |-> Median(cells)]
    ELSE [method |-> "Mean (normal distribution)", fill |-> Mean(cells)]

\* line 55 / line 70: the column has missing cells
NeedsFill(col) == NullCount(col.cells) > 0

\* lines 55-64 on one numeric column
ImputeNumeric(col) ==
    IF NeedsFill(col)
    THEN [col EXCEPT !.cells = FillNa(col.cells, NumericFill(col.cells).fill)]
    ELSE col

\* line 65: the message of one numeric column
NumericEntry(col) ==
    [col |-> col.name, method |-> NumericFill(col.cells).method,
     shown |-> Round2(NumericFill(col.cells).fill)]

\* lines 70-72 on one object column
ImputeCategorical(col) ==
    IF NeedsFill(col)
    THEN [col EXCEPT !.cells = FillNa(col.cells, ModeFirst(col.cells))]
    ELSE col

\* line 73: the message of one object column
CategoricalEntry(col) ==
    [col |-> col.name, method |-> "Mode (Most Frequent)", shown |-> ModeFirst(col.cells)]

\* the columns of one dtype that have missing cells, in column order
ToFill(t, dtype) == SelectSeq(t.cols, LAMBDA c : c.dtype = dtype /\ NeedsFill(c))

\* the messages the numeric loop writes, in column order
NumericEntries(t) ==
    [i \in 1..Len(ToFill(t, "number")) |-> NumericEntry(ToFill(t, "number")[i])]

\* the messages the categorical loop writes, in column order
CategoricalEntries(t) ==
    [i \in 1..Len(ToFill(t, "object")) |-> CategoricalEntry(ToFill(t, "object")[i])]

\* the loop of lines 54-65
NumericLoop(t) ==
    [t EXCEPT !.cols = [i \in 1..Len(t.cols) |->
        IF t.cols[i].dtype = "number" THEN ImputeNumeric(t.cols[i]) ELSE t.cols[i]]]

\* the loop of lines 69-73
CategoricalLoop(t) ==
    [t EXCEPT !.cols = [i \in 1..Len(t.cols) |->
        IF t.cols[i].dtype = "object" THEN ImputeCategorical(t.cols[i]) ELSE t.cols[i]]]

W_date == <<"d", "a", "t", "e">>
W_time == <<"t", "i", "m", "e">>
W_profit == <<"p", "r", "o", "f", "i", "t">>
W_sales == <<"s", "a", "l", "e", "s">>
W_revenue == <<"r", "e", "v", "e", "n", "u", "e">>
W_amount == <<"a", "m", "o", "u", "n", "t">>
W_category == <<"c", "a", "t", "e", "g", "o", "r", "y">>
W_segment == <<"s", "e", "g", "m", "e", "n", "t">>
W_region == <<"r", "e", "g", "i", "o", "n">>

\* line 76: 'date' in col or 'time' in col
IsDateName(col) == Contains(W_date, col) \/ Contains(W_time, col)

\* line 98: 'profit' in col
IsProfitName(col) == Contains(W_profit, col)

\* line 99: 'sales' in col or 'revenue' in col or 'amount' in col
IsSalesName(col) ==
    Contains(W_sales, col) \/ Contains(W_revenue, col) \/ Contains(W_amount, col)

\* line 100: 'category' in col or 'segment' in col or 'region' in col
IsCategoryName(col) ==
    Contains(W_category, col) \/ Contains(W_segment, col) \/ Contains(W_region, col)

\* line 76: the columns named like a date, in column order
DateCols(t) == SelectSeq(Names(t.cols), IsDateName)

\* line 79: the column converted to datetimes
ConvertColumn(t, name) ==
    [t EXCEPT !.cols = [i \in 1..Len(t.cols) |->
        IF t.cols[i].name = name
        THEN [name |-> name, dtype |-> "datetime",
              cells |-> [r \in 1..Len(t.cols[i].cells) |-> ToDatetime(t.cols[i].cells[r])]]
        ELSE t.cols[i]]]

\* a variant of Reorder: only the time column and the row labels are put in order
Reorder_KeyColumnOnly(t, p) ==
    [index |-> Take(t.index, p),
     cols |-> [i \in 1..Len(t.cols) |->
                 IF t.cols[i].dtype = "datetime"
                 THEN [t.cols[i] EXCEPT !.cells = Take(t.cols[i].cells, p)]
                 ELSE t.cols[i]]]

\* the table with its rows in the order p
Reorder(t, p) ==
    [index |-> Take(t.index, p),
     cols |-> [i \in 1..Len(t.cols) |-> [t.cols[i] EXCEPT !.cells = Take(t.cols[i].cells, p)]]]

\* line 80: the tables df.sort_values(by=name) may return
SortValues(t, name) == {Reorder(t, p) : p \in SortOutcomes(Column(t, name).cells)}

\* a variant of DateDetection: the last column named like a date is taken
DateDetection_LastMatch(t) ==
    IF DateCols(t) # << >>
    THEN SortValues(ConvertColumn(t, DateCols(t)[Len(DateCols(t))]),
                    DateCols(t)[Len(DateCols(t))])
    ELSE {t}

\* lines 77-80: the tables the date detection may leave in df
DateDetection(t) ==
    IF DateCols(t) # << >>
    THEN SortValues(ConvertColumn(t, DateCols(t)[1]), DateCols(t)[1])
    ELSE {t}

----------------------------------------------------------------------------
(* The three tabs (lines 102-143).  A tab's outcome is unavailable (the    *)
(* st.info / st.warning branch), computed with its rows, or error (the     *)
(* pandas call raised).                                                    *)

Pending == [status |-> "pending", rows |-> << >>]
Unavailable == [status |-> "unavailable", rows |-> << >>]
Computed(rows) == [status |-> "computed", rows |-> rows]
Failed == [status |-> "error", rows |-> << >>]

\* the sum of a column over a set of rows
SumRows(vals, rows) == Sum([i \in 1..Len(vals) |-> IF i \in rows THEN vals[i] ELSE NaN])

RECURSIVE MonthRange(_, _)
MonthRange(lo, hi) == IF lo > hi THEN << >> ELSE <<lo>> \o MonthRange(NextMonth(lo), hi)

\* a variant of Resample: only the months that hold a row get a bin
Resample_PopulatedOnly(t, dcol, scol) ==
    LET keys == Column(t, dcol).cells
        vals == Column(t, scol).cells
        timed == {i \in 1..Len(keys) : ~IsNull(keys[i])}
        months == {MonthOf(keys[i]) : i \in timed}
        bins == CHOOSE s \in [1..Cardinality(months) -> months] :
                   \A i, j \in 1..Cardinality(months) : i < j => s[i] < s[j]
    IN [j \in 1..Len(bins) |->
          [month |-> bins[j],
           total |-> SumRows(vals, {i \in timed : MonthOf(keys[i]) = bins[j]})]]

(* line 106: df.set_index(dcol)[scol].resample('M').sum().  The bins are
   the calendar months from the earliest to the latest timestamp, every
   month between them included; rows with a missing timestamp are in no
   bin; the sum of a bin without rows is 0. *)
Resample(t, dcol, scol) ==
    LET keys == Column(t, dcol).cells
        vals == Column(t, scol).cells
        timed == {i \in 1..Len(keys) : ~IsNull(keys[i])}
        months == {MonthOf(keys[i]) : i \in timed}
        lo == CHOOSE m \in months : \A o \in months : m <= o
        hi == CHOOSE m \in months : \A o \in months : o <= m
        bins == MonthRange(lo, hi)
    IN [j \in 1..Len(bins) |->
          [month |-> bins[j],
           total |-> SumRows(vals, {i \in timed : MonthOf(keys[i]) = bins[j]})]]

(* lines 104-117.  set_index moves the time column out of the columns, so
   selecting it again as the sales column raises KeyError.  What resample
   does when every timestamp is missing depends on the pandas version: it
   raises or returns an empty series. *)
TrendOutcomes(t, dcols, scol) ==
    IF dcols # << >> /\ scol # None
    THEN IF dcols[1] = scol THEN {Failed}
         ELSE IF NRows(t) = 0 THEN {Computed(<< >>)}
         ELSE IF \A i \in 1..NRows(t) : IsNull(Column(t, dcols[1]).cells[i])
              THEN {Failed, Computed(<< >>)}
         ELSE {Computed(Resample(t, dcols[1], scol))}
    ELSE {Unavailable}

\* the group keys of groupby: the distinct present values, ascending
GroupKeys(cells) ==
    LET vals == Range(Present(cells))
    IN CHOOSE s \in [1..Cardinality(vals) -> vals] :
          \A i, j \in 1..Cardinality(vals) : i < j => CellLess(s[i], s[j])

\* df.groupby(ccol)[pcol].sum()
GroupSums(t, ccol, pcol) ==
    LET keys == Column(t, ccol).cells
        vals == Column(t, pcol).cells
        groups == GroupKeys(keys)
    IN [g \in 1..Len(groups) |->
          [key |-> groups[g],
           total |-> SumRows(vals, {i \in 1..Len(keys) : keys[i] = groups[g]})]]

\* a variant of CatProfitOutcomes: the grouped sums are left in key order
CatProfitOutcomes_Unsorted(t, pcol, ccol) ==
    IF pcol # None /\ ccol # None
    THEN {Computed(GroupSums(t, ccol, pcol))}
    ELSE {Unavailable}

\* lines 121-134: the grouped sums in an order sort_values may produce
CatProfitOutcomes(t, pcol, ccol) ==
    IF pcol # None /\ ccol # None
    THEN LET sums == GroupSums(t, ccol, pcol)
         IN {Computed(Take(sums, p)) :
                p \in SortOutcomes([g \in 1..Len(sums) |-> sums[g].total])}
    ELSE {Unavailable}

(* lines 138-143; the matrix itself is not modelled, only the columns it
   is over.  num_cols was taken before the date detection: whether corr()
   raises on a column that has become datetimes or computes without it
   depends on the pandas version. *)
CorrOutcomes(ncols, dcols) ==
    IF Len(ncols) > 1
    THEN IF dcols # << >> /\ dcols[1] \in Range(ncols)
         THEN {Computed(ncols), Failed}
         ELSE {Computed(ncols)}
    ELSE {Unavailable}

----------------------------------------------------------------------------
(* The uploaded files of the model. *)

H_Qty == <<"Q", "t", "y">>
H_Sales == <<" ", "S", "a", "l", "e", "s">>
H_OrderDate == <<"O", "r", "d", "e", "r", " ", "D", "a", "t", "e">>
H_ShipTime == <<"S", "h", "i", "p", "T", "i", "m", "e", " ">>
H_Profit == <<"P", "r", "o", "f", "i", "t">>
H_NetProfit == <<"N", "e", "t", " ", "P", "r", "o", "f", "i", "t">>
H_Region == <<"R", "e", "g", "i", "o", "n">>
H_Segment == <<"S", "e", "g", "m", "e", "n", "t">>
H_Amount == <<"A", "m", "o", "u", "n", "t">>
H_Revenue == <<"R", "E", "V", "E", "N", "U", "E">>
H_Category == <<"C", "a", "t", "e", "g", "o", "r", "y">>
H_Notes == <<"N", "o", "t", "e", "s">>
H_Lifetime == <<"L", "i", "f", "e", "t", "i", "m", "e">>
H_SalesDate == <<"S", "a", "l", "e", "s", " ", "D", "a", "t", "e">>

V_NY == Str(<<"N", "Y">>)
V_NdotY == Str(<<"N", ".", "Y", ".">>)
V_East == Str(<<"E", "a", "s", "t">>)
D_Jan05 == Str(<<"2", "0", "2", "3", "-", "0", "1", "-", "0", "5">>)
D_Mar01 == Str(<<"2", "0", "2", "3", "-", "0", "3", "-", "0", "1">>)
D_Bad == Str(<<"n", "/", "a">>)

Hdr(header, dtype, domain) == [header |-> header, dtype |-> dtype, domain |-> domain]

N(i) == Num(i, 1)

(* The headers of the uploaded files, each column with the dtype read_csv
   infers and the cells it may hold.  A column named like sales or profit
   holds numbers; a numeric column named like a date holds whole numbers
   and no missing cell. *)
Schemas ==
    { <<Hdr(H_Qty, "number", {NaN, N(0), N(1), N(3)})>>,
      <<Hdr(H_Region, "object", {NaN, V_NY, V_NdotY, V_East})>>,
      <<Hdr(H_SalesDate, "object", {NaN, D_Jan05, D_Bad})>>,
      <<Hdr(H_OrderDate, "object", {NaN, D_Mar01, D_Jan05, D_Bad}),
        Hdr(H_Sales, "number", {NaN, N(1), N(3)})>>,
      <<Hdr(H_Region, "object", {NaN, V_NY, V_East}),
        Hdr(H_Profit, "number", {NaN, N(-2), N(1)})>>,
      <<Hdr(H_ShipTime, "object", {NaN, D_Mar01, D_Jan05, D_Bad}),
        Hdr(H_OrderDate, "object", {D_Jan05, D_Bad})>>,
      <<Hdr(H_Notes, "object", {NaN, V_NY}),
        Hdr(H_Qty, "number", {NaN, N(1)})>>,
      <<Hdr(H_Lifetime, "number", {N(0), N(1)}),
        Hdr(H_Amount, "number", {NaN, N(1)}),
        Hdr(H_Revenue, "number", {N(3)})>>,
      <<Hdr(H_Category, "object", {V_NY, V_East}),
        Hdr(H_Segment, "object", {NaN, V_East}),
        Hdr(H_NetProfit, "number", {N(-2), N(1)})>>,
      <<Hdr(H_Segment, "number", {N(1), N(3)}),
        Hdr(H_NetProfit, "number", {NaN, N(1)}),
        Hdr(H_Region, "object", {V_NY, V_East}),
        Hdr(H_Profit, "number", {N(-2)})>> }

\* the row counts of the uploaded files with the headers sch
RowCounts(sch) ==
    {k \in 0..MaxRows : k * Len(sch) <= MaxCells}

(* The columns read_csv may return for one header and k rows: a header-only
   file gives object columns; a column whose cells are all empty is read as
   float64, so an object column has a present cell. *)
ReadColumn(h, k) ==
    {[name |-> h.header, dtype |-> IF k = 0 THEN "object" ELSE h.dtype, cells |-> cells] :
        cells \in {c \in [1..k -> h.domain] :
                      h.dtype = "object" /\ k > 0 => \E i \in 1..k : ~IsNull(c[i])}}

RECURSIVE ReadColumns(_, _)
ReadColumns(sch, k) ==
    IF sch = << >> THEN {<< >>}
    ELSE {<<col>> \o rest : col \in ReadColumn(Head(sch), k), rest \in ReadColumns(Tail(sch), k)}

\* line 31: the data frames pd.read_csv may return
Uploads ==
    UNION {UNION {{[index |-> [i \in 1..k |-> i], cols |-> cols] : cols \in ReadColumns(sch, k)} :
                    k \in RowCounts(sch)} : sch \in Schemas}

----------------------------------------------------------------------------
(* The script body. *)

Init ==
    /\ uploaded \in Uploads
    /\ df = uploaded
    /\ pc = "headers"
    /\ initial_nulls = << >>
    /\ final_nulls = << >>
    /\ log = << >>
    /\ num_cols = << >>
    /\ cat_cols = << >>
    /\ date_cols = << >>
    /\ profit_col = None
    /\ sales_col = None
    /\ category_col = None
    /\ monthly_sales = Pending
    /\ cat_profit = Pending
    /\ corr = Pending

\* line 34
NormalizeHeaders ==
    /\ pc = "headers"
    /\ df' = [df EXCEPT !.cols = [i \in 1..Len(df.cols) |->
                 [df.cols[i] EXCEPT !.name = NormalizeHeader(df.cols[i].name)]]]
    /\ pc' = "audit"
    /\ UNCHANGED <<uploaded, initial_nulls, log, num_cols, cat_cols, date_cols, final_nulls,
                   profit_col, sales_col, category_col, monthly_sales, cat_profit, corr>>

\* line 43
AuditBefore ==
    /\ pc = "audit"
    /\ initial_nulls' = get_health_check(df)
    /\ pc' = "numeric"
    /\ UNCHANGED <<uploaded, df, log, num_cols, cat_cols, date_cols, final_nulls,
                   profit_col, sales_col, category_col, monthly_sales, cat_profit, corr>>

\* lines 53-65
HandleNumeric ==
    /\ pc = "numeric"
    /\ num_cols' = SelectDtypes(df, "number")
    /\ df' = NumericLoop(df)
    /\ log' = log \o NumericEntries(df)
    /\ pc' = "categorical"
    /\ UNCHANGED <<uploaded, initial_nulls, cat_cols, date_cols, final_nulls,
                   profit_col, sales_col, category_col, monthly_sales, cat_profit, corr>>

\* lines 68-73
HandleCategorical ==
    /\ pc = "categorical"
    /\ cat_cols' = SelectDtypes(df, "object")
    /\ df' = CategoricalLoop(df)
    /\ log' = log \o CategoricalEntries(df)
    /\ pc' = "dates"
    /\ UNCHANGED <<uploaded, initial_nulls, num_cols, date_cols, final_nulls,
                   profit_col, sales_col, category_col, monthly_sales, cat_profit, corr>>

\* lines 76-80
DetectDates ==
    /\ pc = "dates"
    /\ date_cols' = DateCols(df)
    /\ df' \in DateDetection(df)
    /\ pc' = "audit_after"
    /\ UNCHANGED <<uploaded, initial_nulls, log, num_cols, cat_cols, final_nulls,
                   profit_col, sales_col, category_col, monthly_sales, cat_profit, corr>>

\* line 84
AuditAfter ==
    /\ pc = "audit_after"
    /\ final_nulls' = get_health_check(df)
    /\ pc' = "roles"
    /\ UNCHANGED <<uploaded, df, initial_nulls, log, num_cols, cat_cols, date_cols,
                   profit_col, sales_col, category_col, monthly_sales, cat_profit, corr>>

\* a variant of IdentifyColumns: the category column is sought among all columns
IdentifyColumns_AnyDtype ==
    /\ pc = "roles"
    /\ profit_col' = First(SelectSeq(Names(df.cols), IsProfitName))
    /\ sales_col' = First(SelectSeq(Names(df.cols), IsSalesName))
    /\ category_col' = First(SelectSeq(Names(df.cols), IsCategoryName))
    /\ pc' = "tab1"
    /\ UNCHANGED <<uploaded, df, initial_nulls, log, num_cols, cat_cols, date_cols,
                   final_nulls, monthly_sales, cat_profit, corr>>

\* lines 98-100
IdentifyColumns ==
    /\ pc = "roles"
    /\ profit_col' = First(SelectSeq(Names(df.cols), IsProfitName))
    /\ sales_col' = First(SelectSeq(Names(df.cols), IsSalesName))
    /\ category_col' = First(SelectSeq(cat_cols, IsCategoryName))
    /\ pc' = "tab1"
    /\ UNCHANGED <<uploaded, df, initial_nulls, log, num_cols, cat_cols, date_cols,
                   final_nulls, monthly_sales, cat_profit, corr>>

\* lines 102-117
Tab1 ==
    /\ pc = "tab1"
    /\ monthly_sales' \in TrendOutcomes(df, date_cols, sales_col)
    /\ pc' = IF monthly_sales'.status = "error" THEN "crashed" ELSE "tab2"
    /\ UNCHANGED <<uploaded, df, initial_nulls, log, num_cols, cat_cols, date_cols,
                   final_nulls, profit_col, sales_col, category_col, cat_profit, corr>>

\* lines 119-134
Tab2 ==
    /\ pc = "tab2"
    /\ cat_profit' \in CatProfitOutcomes(df, profit_col, category_col)
    /\ pc' = "tab3"
    /\ UNCHANGED <<uploaded, df, initial_nulls, log, num_cols, cat_cols, date_cols,
                   final_nulls, profit_col, sales_col, category_col, monthly_sales, corr>>

\* lines 136-143
Tab3 ==
    /\ pc = "tab3"
    /\ corr' \in CorrOutcomes(num_cols, date_cols)
    /\ pc' = IF corr'.status = "error" THEN "crashed" ELSE "done"
    /\ UNCHANGED <<uploaded, df, initial_nulls, log, num_cols, cat_cols, date_cols,
                   final_nulls, profit_col, sales_col, category_col, monthly_sales,
                   cat_profit>>

Next ==
    \/ NormalizeHeaders
    \/ AuditBefore
    \/ HandleNumeric
    \/ HandleCategorical
    \/ DetectDates
    \/ AuditAfter
    \/ IdentifyColumns
    \/ Tab1
    \/ Tab2
    \/ Tab3

Spec == Init /\ [][Next]_vars

----------------------------------------------------------------------------
(* The properties.  They are stated over the uploaded table (the input)   *)
(* and the state the script has reached.                                   *)

\* the cleaning pass (lines 52-80) has run
Cleaned == pc \in {"audit_after", "roles", "tab1", "tab2", "tab3", "done", "crashed"}

\* the roles (lines 98-100) have been chosen
RolesChosen == pc \in {"tab1", "tab2", "tab3", "done", "crashed"}

ColIdx == 1..Len(uploaded.cols)

\* the cells of input column i, and its cells now
InCells(i) == uploaded.cols[i].cells
NowCells(i) == df.cols[i].cells

\* the name of column i once the headers are normalized
NormName(i) == df.cols[i].name

\* the input columns whose normalized name contains one of the words
Named(words) == {i \in ColIdx : \E w \in words : Contains(w, NormName(i))}

MinOf(S) == CHOOSE i \in S : \A j \in S : i <= j

\* the name of the first input column among S, None when S is empty
FirstNamed(S) == IF S = {} THEN None ELSE NormName(MinOf(S))

DateNamed == Named({W_date, W_time})

\* the time role: the first detected date column
TimeRole == First(date_cols)

InputClean == \A i \in ColIdx : NullCount(InCells(i)) = 0

(* C1: after the cleaning pass every column classified numeric or
   categorical (the parsed time column apart) has no missing cell. *)
C1_NoMissingAfterCleaning ==
    Cleaned =>
        \A i \in ColIdx :
            df.cols[i].dtype \in {"number", "object"} => NullCount(NowCells(i)) = 0

(* C2 as stated: cleaning a table without missing cells writes no cleaning
   operation and leaves every cell and the row order as they were. *)
C2_CleanInputUntouched ==
    (Cleaned /\ InputClean) =>
        /\ log = << >>
        /\ df.index = uploaded.index
        /\ \A i \in ColIdx : NowCells(i) = InCells(i)

(* C2 amended: cleaning a table without missing cells writes no cleaning
   operation; a table with no column named like a date keeps its row
   order; every column but the first one named like a date keeps its dtype
   and, row by row label, its cells; that first column holds the parsed
   cells of the same rows. *)
C2_CleanInputOnlyDatesChange ==
    (Cleaned /\ InputClean) =>
        /\ log = << >>
        /\ DateNamed = {} => df.index = uploaded.index
        /\ \A i \in ColIdx :
              IF DateNamed # {} /\ i = MinOf(DateNamed)
              THEN NowCells(i) =
                      [r \in 1..NRows(df) |-> ToDatetime(InCells(i)[df.index[r]])]
              ELSE /\ NowCells(i) = Take(InCells(i), df.index)
                   /\ df.cols[i].dtype = uploaded.cols[i].dtype

C2_Witness ==
    /\ Cleaned /\ InputClean
    /\ DateNamed # {}
    /\ Len(df.cols) >= 2
    /\ df.index # uploaded.index

(* C3: the table has the same number of rows in every state of the run;
   imputation leaves the rows where they are and the sort by the time
   column yields a permutation of the rows. *)
C3_RowsPreserved ==
    /\ Len(df.cols) = Len(uploaded.cols)
    /\ Len(df.index) = Len(uploaded.index)
    /\ Range(df.index) = Range(uploaded.index)
    /\ \A i \in ColIdx : Len(NowCells(i)) = Len(uploaded.index)
    /\ ~Cleaned => df.index = uploaded.index

C3_Witness ==
    /\ Cleaned
    /\ DateNamed # {}
    /\ \E r \in 1..NRows(df) : IsNull(NowCells(MinOf(DateNamed))[r])
    /\ \E r \in 1..NRows(df) : ~IsNull(NowCells(MinOf(DateNamed))[r])
    /\ df.index # uploaded.index

\* how often value v occurs among cells
Freq(cells, v) == Cardinality({r \in 1..Len(cells) : cells[r] = v})

\* the present values that no other present value outnumbers
MostFrequent(cells) ==
    {v \in Range(cells) : ~IsNull(v) /\ \A w \in Range(cells) : IsNull(w) \/ Freq(cells, w) <= Freq(cells, v)}

FirstRow(cells, v) == MinOf({r \in 1..Len(cells) : cells[r] = v})

\* the object columns of the input that have a missing cell
ToFillCategorical == {i \in ColIdx : uploaded.cols[i].dtype = "object" /\ NullCount(InCells(i)) > 0}

(* C4 as stated: every missing cell of a categorical column is filled with
   the most frequent present value, of several the one met first in the
   column. *)
C4_ModeTieFirstMet ==
    pc = "dates" =>
        \A i \in ToFillCategorical :
            \E v \in MostFrequent(InCells(i)) :
                /\ \A w \in MostFrequent(InCells(i)) : FirstRow(InCells(i), v) <= FirstRow(InCells(i), w)
                /\ NowCells(i) = [r \in 1..NRows(df) |-> IF IsNull(InCells(i)[r]) THEN v ELSE InCells(i)[r]]

(* C4 amended: every missing cell of a categorical column is filled with
   the most frequent present value, of several the smallest in string
   order; values are counted as they are written, none merged. *)
C4_ModeTieSmallest ==
    pc = "dates" =>
        \A i \in ToFillCategorical :
            \E v \in MostFrequent(InCells(i)) :
                /\ \A w \in MostFrequent(InCells(i)) : ~StrLess(w.s, v.s)
                /\ NowCells(i) = [r \in 1..NRows(df) |-> IF IsNull(InCells(i)[r]) THEN v ELSE InCells(i)[r]]

C4_Witness ==
    /\ pc = "dates"
    /\ \E i \in ToFillCategorical :
          \E v, w \in MostFrequent(InCells(i)) :
              /\ FirstRow(InCells(i), v) < FirstRow(InCells(i), w)
              /\ StrLess(w.s, v.s)
              /\ \E r \in 1..NRows(df) : IsNull(InCells(i)[r]) /\ NowCells(i)[r] = w

\* the months that hold a row with a parsed time
PopulatedMonths ==
    IF DateNamed = {} THEN {}
    ELSE {MonthOf(c) : c \in {x \in Range(NowCells(MinOf(DateNamed))) : ~IsNull(x)}}

\* the sum of the sales column over the rows of calendar month m
MonthTotal(m) ==
    LET keys == NowCells(MinOf(DateNamed))
        vals == Column(df, sales_col).cells
    IN Sum([r \in 1..NRows(df) |->
              IF ~IsNull(keys[r]) /\ MonthOf(keys[r]) = m THEN vals[r] ELSE NaN])

\* the calendar months from the earliest to the latest populated month
MonthSpan ==
    IF PopulatedMonths = {} THEN {}
    ELSE {m \in MinOf(PopulatedMonths)..(0 - MinOf({0 - x : x \in PopulatedMonths})) :
             m % 100 \in 1..12}

TrendRows == monthly_sales.rows

\* the trend series is ascending by month and every total is its month's sum
TrendSumsAscending ==
    /\ \A j \in 1..Len(TrendRows) : TrendRows[j].total = MonthTotal(TrendRows[j].month)
    /\ \A j, k \in 1..Len(TrendRows) : j < k => TrendRows[j].month < TrendRows[k].month

ToFillNumeric == {i \in ColIdx : uploaded.cols[i].dtype = "number" /\ NullCount(InCells(i)) > 0}

\* the sum of the e-th powers of the present values (whole numbers here)
RECURSIVE PowerSum(_, _)
PowerSum(cells, e) ==
    IF cells = << >> THEN 0
    ELSE LET x == Head(cells).n
         IN (IF IsNull(Head(cells)) THEN 0
             ELSE IF e = 1 THEN x ELSE IF e = 2 THEN x * x ELSE x * x * x)
            + PowerSum(Tail(cells), e)

(* the sample skewness of the present values is defined (three or more of
   them) and strictly greater than 1, from the power sums s1, s2, s3:
   with k values, k^3 times the second central moment is k^2 s2 - k s1^2,
   k^4 times the third is k^3 s3 - 3 k^2 s1 s2 + 2 k s1^3 *)
SkewnessExceedsOne(cells) ==
    LET k  == Len(cells) - NullCount(cells)
        s1 == PowerSum(cells, 1)
        s2 == PowerSum(cells, 2)
        s3 == PowerSum(cells, 3)
        c2 == k * k * s2 - k * s1 * s1
        c3 == k * k * k * s3 - 3 * k * k * s1 * s2 + 2 * k * s1 * s1 * s1
    IN k >= 3 /\ c3 > 0 /\ k * k * (k - 1) * c3 * c3 > (k - 2) * (k - 2) * c2 * c2 * c2

\* the log entries of column i
EntriesOf(i) == SelectSeq(log, LAMBDA e : e.col = NormName(i))

(* C6: a numeric column with missing cells is filled with its median when
   the skewness of its present values is defined and above 1, with its
   mean otherwise (skewness at most 1, or undefined), and the step ends
   without an error; a column without missing cells gets no entry. *)
C6_MedianIffSkewAboveOne ==
    pc = "categorical" =>
        /\ Len(log) = Cardinality(ToFillNumeric)
        /\ \A i \in ToFillNumeric :
              /\ Len(EntriesOf(i)) = 1
              /\ IF SkewnessExceedsOne(InCells(i))
                 THEN /\ EntriesOf(i)[1].method = "Median (due to skew)"
                      /\ NowCells(i) = FillNa(InCells(i), Median(InCells(i)))
                 ELSE /\ EntriesOf(i)[1].method = "Mean (normal distribution)"
                      /\ NowCells(i) = FillNa(InCells(i), Mean(InCells(i)))

C6_Witness ==
    /\ pc = "categorical"
    /\ \E i \in ToFillNumeric :
          /\ EntriesOf(i)[1].method = "Median (due to skew)"
          /\ Median(InCells(i)) # Mean(InCells(i))
          /\ NullCount(NowCells(i)) = 0

ProfitRows == cat_profit.rows

\* the sum of the profit column over the rows of category value v
CategoryTotal(v) ==
    LET keys == Column(df, category_col).cells
        vals == Column(df, profit_col).cells
    IN Sum([r \in 1..NRows(df) |-> IF keys[r] = v THEN vals[r] ELSE NaN])

(* C7: the category profitability has one entry per distinct category
   value, its total the sum of the profit column over that category's
   rows, and the totals never decrease from one entry to the next. *)
C7_GroupSumsAscending ==
    cat_profit.status = "computed" =>
        /\ {ProfitRows[j].key : j \in 1..Len(ProfitRows)} =
              {v \in Range(Column(df, category_col).cells) : ~IsNull(v)}
        /\ \A j, k \in 1..Len(ProfitRows) : j # k => ProfitRows[j].key # ProfitRows[k].key
        /\ \A j \in 1..Len(ProfitRows) : ProfitRows[j].total = CategoryTotal(ProfitRows[j].key)
        /\ \A j \in 1..(Len(ProfitRows) - 1) :
              ~NumLess(ProfitRows[j + 1].total, ProfitRows[j].total)

C7_Witness ==
    /\ cat_profit.status = "computed"
    /\ Len(ProfitRows) = 2
    /\ StrLess(ProfitRows[2].key.s, ProfitRows[1].key.s)
    /\ NumLess(ProfitRows[1].total, ProfitRows[2].total)
    /\ NumLess(ProfitRows[1].total, Num(0, 1))

\* the columns classified categorical: dtype object as read
Categorical == {i \in ColIdx : uploaded.cols[i].dtype = "object"}

(* C8: each role is the first column, in column order, whose normalized
   name contains one of the role's words, for the category role among the
   categorical columns only; it is unset when no column qualifies. *)
C8_FirstMatchPerRole ==
    RolesChosen =>
        /\ TimeRole = FirstNamed(Named({W_date, W_time}))
        /\ sales_col = FirstNamed(Named({W_sales, W_revenue, W_amount}))
        /\ profit_col = FirstNamed(Named({W_profit}))
        /\ category_col = FirstNamed(Named({W_category, W_segment, W_region}) \cap Categorical)

C8_Witness ==
    /\ RolesChosen
    /\ Cardinality(Named({W_profit})) >= 2
    /\ profit_col # None
    /\ category_col # None
    /\ \E i \in Named({W_category, W_segment, W_region}) \ Categorical :
          \E j \in Categorical : i < j /\ NormName(j) = category_col

(* C9: a tab is unavailable, and raises no error, when its prerequisites
   are missing: the trend without a time or a revenue role, the
   profitability without a category or a profit role, the correlation with
   fewer than 2 numeric columns; in exactly the other cases it computes a
   result. *)
C9_UnavailableElseComputed ==
    /\ monthly_sales.status # "pending" =>
          monthly_sales.status =
              IF TimeRole = None \/ sales_col = None THEN "unavailable" ELSE "computed"
    /\ cat_profit.status # "pending" =>
          cat_profit.status =
              IF category_col = None \/ profit_col = None THEN "unavailable" ELSE "computed"
    /\ corr.status # "pending" =>
          corr.status =
              IF Cardinality({i \in ColIdx : uploaded.cols[i].dtype = "number"}) < 2
              THEN "unavailable" ELSE "computed"

\* the time column now
TimeCells == NowCells(MinOf(DateNamed))

(* C10: the time detection runs when both imputations are done; it parses
   the first column named like a date and no other; a cell that does not
   parse becomes missing and the run goes on; a cell that was missing in a
   text column holds the parse of a present value of the column (it was
   filled first); the rows are ascending by the parsed time with the rows
   without one last. *)
C10_FirstDateColumnParsedAndSorted ==
    /\ ~Cleaned =>
          /\ \A i \in ColIdx : df.cols[i].dtype # "datetime"
          /\ df.index = uploaded.index
    /\ pc = "dates" =>
          /\ Len(log) = Cardinality(ToFillNumeric) + Cardinality(ToFillCategorical)
          /\ \A i \in Categorical : NullCount(NowCells(i)) = 0
    /\ Cleaned =>
          /\ \A i \in ColIdx :
                df.cols[i].dtype = "datetime" <=> (DateNamed # {} /\ i = MinOf(DateNamed))
          /\ \A i \in ColIdx :
                (DateNamed # {} /\ i # MinOf(DateNamed)) =>
                    /\ df.cols[i].dtype = uploaded.cols[i].dtype
                    /\ \A r \in 1..NRows(df) : NowCells(i)[r].kind # "ts"
          /\ DateNamed # {} =>
                /\ \A r \in 1..NRows(df) :
                      LET was == InCells(MinOf(DateNamed))[df.index[r]]
                      IN IF IsNull(was)
                         THEN \E v \in Range(InCells(MinOf(DateNamed))) :
                                 ~IsNull(v) /\ TimeCells[r] = ToDatetime(v)
                         ELSE TimeCells[r] = ToDatetime(was)
                /\ \A r, q \in 1..NRows(df) : r < q =>
                      /\ ~(IsNull(TimeCells[r]) /\ ~IsNull(TimeCells[q]))
                      /\ (~IsNull(TimeCells[r]) /\ ~IsNull(TimeCells[q])) =>
                            ~TsLess(TimeCells[q], TimeCells[r])

C10_Witness ==
    /\ pc = "done"
    /\ Cardinality(DateNamed) >= 2
    /\ \E r \in 1..NRows(df) : IsNull(TimeCells[r]) /\ ~IsNull(InCells(MinOf(DateNamed))[df.index[r]])
    /\ \E r \in 1..NRows(df) : ~IsNull(TimeCells[r]) /\ IsNull(InCells(MinOf(DateNamed))[df.index[r]])
    /\ df.index # uploaded.index

====
